---- MODULE Spec2Model ----
(***************************************************************************)
(* Monosynaptic reflex configuration: construction from defaults and       *)
(* caller overrides (Monosynaptic.__init__) and the consistency checks of  *)
(* Monosynaptic.validate_input.                                            *)
(*                                                                         *)
(* Python dictionaries are TLA+ functions (a record [Ia |-> 410, ...] is   *)
(* the function with domain {"Ia", ...}); lists are sequences.  A brian2   *)
(* quantity is a magnitude with the unit it was written in; its physical   *)
(* dimension is computed from the unit.  Normalized currents and           *)
(* probabilities are counted in hundredths (0.3 is 30), magnitudes in the  *)
(* largest unit that keeps them whole (0.3 nF is 300 pF).                  *)
(***************************************************************************)
EXTENDS Integers, Sequences, FiniteSets, TLC

VARIABLES
    status,    \* "new": no constructor call yet; "constructed": __init__
               \* returned; "aborted": __init__ raised
    args,      \* the arguments __init__ was called with
    self,      \* the fields of the object
    outcome,   \* what the last validate_input call (or __init__) produced
    previous,  \* what the validate_input call before the last one produced
    calls      \* number of validate_input calls so far

vars == <<status, args, self, outcome, previous, calls>>

---------------------------------------------------------------------------
(* Bounds of the model *)

\* longest muscles_names list a caller passes
MaxMuscles == 2
\* longest custom_initial_condition_spike_activation list a caller passes
MaxCustomRecords == 2
\* most optional arguments (fields, for a hand-built object) a caller sets
MaxOverrides == 2
\* most validate_input calls made on one object
MaxCalls == 2

---------------------------------------------------------------------------
(* Optional arguments: None or a value *)

None == [some |-> FALSE, val |-> <<>>]
Some(v) == [some |-> TRUE, val |-> v]
Opt(S) == {None} \cup {Some(v) : v \in S}

\* update with the operands swapped: on a shared key the old value stays
UpdateKeepingOld(d, m) ==
    [k \in DOMAIN d \cup DOMAIN m |-> IF k \in DOMAIN d THEN d[k] ELSE m[k]]

\* dict.update(m): m's keys overwrite or extend d's
Update(d, m) == [k \in DOMAIN d \cup DOMAIN m |-> IF k \in DOMAIN m THEN m[k] ELSE d[k]]

---------------------------------------------------------------------------
(* Quantities *)

Quantity(mag, unit) == [mag |-> mag, unit |-> unit]

\* the physical dimension of a unit
UnitDim(unit) ==
    CASE unit \in {"second", "ms", "us"} -> "time"
      [] unit \in {"volt", "mV"} -> "voltage"
      [] unit \in {"siemens", "nS", "pS"} -> "conductance"
      [] unit \in {"farad", "nF", "pF"} -> "capacitance"

\* value.dim
Dim(q) == UnitDim(q.unit)

---------------------------------------------------------------------------
(* Defaults of __init__ *)

DefaultMuscles == <<"soleus_r">>

DefaultBiophysical ==
    [T_refr |-> Quantity(5, "ms"),
     Eleaky |-> Quantity(-70, "mV"),
     gL |-> Quantity(10, "nS"),
     Cm |-> Quantity(300, "pF"),
     E_ex |-> Quantity(0, "mV"),
     tau_e |-> Quantity(500, "us"),
     threshold_v |-> Quantity(-50, "mV")]

\* the Ia threshold written as the recruitment fraction it stands for
DefaultEESTenPercent ==
    [Ia |-> [threshold_10pct |-> 10, saturation_90pct |-> 70],
     MN |-> [threshold_10pct |-> 70, saturation_90pct |-> 90]]

DefaultEES ==
    [Ia |-> [threshold_10pct |-> 30, saturation_90pct |-> 70],
     MN |-> [threshold_10pct |-> 70, saturation_90pct |-> 90]]

\* a digit dropped from the motoneuron count
DefaultNeuronsMiscounted == [Ia |-> 410, MN |-> 50]

DefaultNeurons == [Ia |-> 410, MN |-> 500]

DefaultConnections == (<<"Ia", "MN">> :> [w |-> Quantity(2100, "pS"), p |-> 70])

DefaultSpindle ==
    [Ia |-> "10+ 2*stretch + 4.3*sign(stretch_velocity)*abs(stretch_velocity)**0.6"]

ZeroRecord == [u0 |-> <<0, 0>>, c0 |-> <<0, 0>>, P0 |-> 0, a0 |-> 0]

\* [[{...} for _ in range(n)]]: one list holding n zero-valued records
DefaultSpikeActivation(n) == << [i \in 1..n |-> ZeroRecord] >>

---------------------------------------------------------------------------
(* The object *)

\* the fields before __init__ has assigned them
NoObject ==
    [muscles_names |-> <<>>, number_muscles |-> 0,
     biophysical_params |-> <<>>, ees_recruitment_profile |-> <<>>,
     neurons_population |-> <<>>, connections |-> <<>>, spindle_model |-> <<>>,
     initial_potentials |-> <<>>, initial_condition_spike_activation |-> <<>>]

\* BiologicalSystem.__init__: keeps the shared fields as handed over and
\* counts the muscles
BaseInit(ees_recruitment_profile, biophysical_params, muscles_names) ==
    [NoObject EXCEPT
        !.muscles_names = muscles_names,
        !.number_muscles = Len(muscles_names),
        !.biophysical_params = biophysical_params,
        !.ees_recruitment_profile = ees_recruitment_profile]

\* an argument left at None takes the default, a supplied one is used whole
OrDefault(arg, default) == IF arg.some THEN arg.val ELSE default

\* a supplied mapping is merged into the default by dict.update
Merged(default, custom) == IF custom.some THEN Update(default, custom.val) ELSE default

\* lines 22-23
SuppliedMuscles(a) == OrDefault(a.muscles_names, DefaultMuscles)

\* the supplied parameters merged into the defaults instead of used whole
SuppliedBiophysicalMerged(a) ==
    IF a.biophysical_params.some
    THEN [k \in DOMAIN DefaultBiophysical \cup DOMAIN a.biophysical_params.val |->
            IF k \in DOMAIN a.biophysical_params.val
            THEN a.biophysical_params.val[k] ELSE DefaultBiophysical[k]]
    ELSE DefaultBiophysical

\* lines 25-34
SuppliedBiophysical(a) == OrDefault(a.biophysical_params, DefaultBiophysical)

\* lines 36-46
SuppliedEES(a) == OrDefault(a.ees_recruitment_profile, DefaultEES)

\* __init__ up to the spindle model (lines 22-78)
MergedFields(a) ==
    [BaseInit(SuppliedEES(a), SuppliedBiophysical(a), SuppliedMuscles(a))
     EXCEPT
        !.neurons_population = Merged(DefaultNeurons, a.custom_neurons),
        !.connections = Merged(DefaultConnections, a.custom_connections),
        !.spindle_model = Merged(DefaultSpindle, a.custom_spindle)]

\* self.biophysical_params['Eleaky'] raises KeyError when the key is absent
EleakyRaises(s) == "Eleaky" \notin DOMAIN s.biophysical_params

\* the activation state sized from the default population, as if it were
\* built before custom_neurons is merged
InitialStateBeforeMerge(s, a) ==
    [s EXCEPT
        !.initial_potentials =
            IF a.custom_initial_potentials.some
            THEN a.custom_initial_potentials.val
            ELSE [MN |-> s.biophysical_params["Eleaky"]],
        !.initial_condition_spike_activation =
            IF a.custom_initial_condition_spike_activation.some
            THEN a.custom_initial_condition_spike_activation.val
            ELSE << [i \in 1..500 |-> [u0 |-> <<0, 0>>, c0 |-> <<0, 0>>, P0 |-> 0, a0 |-> 0]] >>]

\* __init__ from the initial potentials to the activation state (lines 80-96)
InitialState(s, a) ==
    [s EXCEPT
        !.initial_potentials =
            OrDefault(a.custom_initial_potentials,
                      [MN |-> s.biophysical_params["Eleaky"]]),
        !.initial_condition_spike_activation =
            OrDefault(a.custom_initial_condition_spike_activation,
                      DefaultSpikeActivation(s.neurons_population["MN"]))]

---------------------------------------------------------------------------
(* validate_input *)

\* an entry of issues["errors"] or issues["warnings"]: the rule, what the
\* message names (tuples of strings) and the numbers it prints
Msg(rule, about, got) == [rule |-> rule, about |-> about, got |-> got]

RECURSIVE Flatten(_)
Flatten(ss) == IF ss = <<>> THEN <<>> ELSE Head(ss) \o Flatten(Tail(ss))

required_neurons == {"Ia", "MN"}
required_connections == {<<"Ia", "MN">>}
required_params == <<"T_refr", "Eleaky", "gL", "Cm", "E_ex", "tau_e", "threshold_v">>
required_ees_params == <<"threshold_10pct", "saturation_90pct">>

expected_units ==
    [T_refr |-> "second", Eleaky |-> "volt", gL |-> "siemens", Cm |-> "farad",
     E_ex |-> "volt", tau_e |-> "second", threshold_v |-> "volt"]

\* lines 110-112
MuscleErrors(s) ==
    IF s.number_muscles # 1 THEN << Msg("muscle_count", {}, <<>>) >> ELSE <<>>

\* lines 115-120
NeuronErrors(s) ==
    LET missing_neurons == required_neurons \ DOMAIN s.neurons_population
    IN  IF missing_neurons # {}
        THEN << Msg("missing_neurons", {<<n>> : n \in missing_neurons}, <<>>) >>
        ELSE <<>>

\* lines 122-125
NeuronWarnings(s) ==
    LET unexpected_neurons == DOMAIN s.neurons_population \ required_neurons
    IN  IF unexpected_neurons # {}
        THEN << Msg("unexpected_neurons", {<<n>> : n \in unexpected_neurons}, <<>>) >>
        ELSE <<>>

\* lines 127-133
ConnectionErrors(s) ==
    LET missing_connections == required_connections \ DOMAIN s.connections
    IN  IF missing_connections # {}
        THEN << Msg("missing_connections", missing_connections, <<>>) >>
        ELSE <<>>

\* lines 135-137
SpindleErrors(s) ==
    IF "Ia" \notin DOMAIN s.spindle_model
    THEN << Msg("missing_spindle", {<<"Ia">>}, <<>>) >>
    ELSE <<>>

\* lines 139-142
EESTypeErrors(s) ==
    LET absent == SelectSeq(<<"Ia", "MN">>,
                            LAMBDA t : t \notin DOMAIN s.ees_recruitment_profile)
    IN  [i \in DOMAIN absent |-> Msg("missing_ees_type", {<<absent[i]>>}, <<>>)]

\* lines 144-146
InhibitoryWarnings(s) ==
    IF "E_inh" \in DOMAIN s.biophysical_params \/ "tau_i" \in DOMAIN s.biophysical_params
    THEN << Msg("inhibitory_parameters", {}, <<>>) >>
    ELSE <<>>

\* lines 148-152
MandatoryErrors(s) ==
    LET absent == SelectSeq(required_params,
                            LAMBDA p : p \notin DOMAIN s.biophysical_params)
    IN  [i \in DOMAIN absent |-> Msg("missing_parameter", {<<absent[i]>>}, <<>>)]

\* lines 154-172; expected_units lists the parameters in the order of
\* required_params
UnitErrors(s) ==
    LET wrong == SelectSeq(required_params,
                     LAMBDA p : /\ p \in DOMAIN s.biophysical_params
                                /\ Dim(s.biophysical_params[p]) # UnitDim(expected_units[p]))
    IN  [i \in DOMAIN wrong |->
            Msg("incorrect_unit",
                {<<wrong[i], expected_units[wrong[i]], s.biophysical_params[wrong[i]].unit>>},
                <<>>)]

\* the ordering test with > for >=: equal values pass
EESEntryErrorsStrictOrder(neuron_type, params) ==
    LET absent == SelectSeq(<<"threshold_10pct", "saturation_90pct">>,
                            LAMBDA p : p \notin DOMAIN params)
        missing == [i \in DOMAIN absent |->
                        Msg("missing_ees_parameter", {<<absent[i], neuron_type>>}, <<>>)]
        both == "threshold_10pct" \in DOMAIN params /\ "saturation_90pct" \in DOMAIN params
        threshold == params["threshold_10pct"]
        saturation == params["saturation_90pct"]
        range == IF both /\ (~(0 <= threshold /\ threshold <= 100)
                             \/ ~(0 <= saturation /\ saturation <= 100))
                 THEN << Msg("ees_range", {<<neuron_type>>}, <<threshold, saturation>>) >>
                 ELSE <<>>
        order == IF both /\ threshold > saturation
                 THEN << Msg("ees_order", {<<neuron_type>>}, <<>>) >>
                 ELSE <<>>
    IN  missing \o range \o order

\* lines 177-192, for one entry of the recruitment profile
EESEntryErrors(neuron_type, params) ==
    LET absent == SelectSeq(required_ees_params, LAMBDA p : p \notin DOMAIN params)
        missing == [i \in DOMAIN absent |->
                        Msg("missing_ees_parameter", {<<absent[i], neuron_type>>}, <<>>)]
        both == "threshold_10pct" \in DOMAIN params /\ "saturation_90pct" \in DOMAIN params
        threshold == params["threshold_10pct"]
        saturation == params["saturation_90pct"]
        range == IF both /\ (~(0 <= threshold /\ threshold <= 100)
                             \/ ~(0 <= saturation /\ saturation <= 100))
                 THEN << Msg("ees_range", {<<neuron_type>>}, <<threshold, saturation>>) >>
                 ELSE <<>>
        order == IF both /\ threshold >= saturation
                 THEN << Msg("ees_order", {<<neuron_type>>}, <<>>) >>
                 ELSE <<>>
    IN  missing \o range \o order

\* lines 174-192; entries of other neuron types are skipped.  The loop runs
\* in the dictionary's order; here Ia comes before MN.
EESParamErrors(s) ==
    LET present == SelectSeq(<<"Ia", "MN">>,
                             LAMBDA t : t \in DOMAIN s.ees_recruitment_profile)
    IN  Flatten([i \in DOMAIN present |->
                    EESEntryErrors(present[i], s.ees_recruitment_profile[present[i]])])

\* fail-fast validation: only the first error found is kept
ErrorsOfFailFast(s) ==
    LET all == MuscleErrors(s) \o NeuronErrors(s) \o ConnectionErrors(s)
               \o SpindleErrors(s) \o EESTypeErrors(s) \o MandatoryErrors(s)
               \o UnitErrors(s) \o EESParamErrors(s)
    IN  IF all = <<>> THEN <<>> ELSE << Head(all) >>

\* issues["errors"] when the checks are done
ErrorsOf(s) ==
    MuscleErrors(s) \o NeuronErrors(s) \o ConnectionErrors(s) \o SpindleErrors(s)
    \o EESTypeErrors(s) \o MandatoryErrors(s) \o UnitErrors(s) \o EESParamErrors(s)

\* issues["warnings"] when the checks are done
WarningsOf(s) == NeuronWarnings(s) \o InhibitoryWarnings(s)

\* what a call leaves behind when nothing was raised or returned yet
NoOutcome ==
    [exception |-> "none", returned |-> FALSE,
     errors |-> <<>>, warnings |-> <<>>, printed |-> <<>>]

\* warnings treated as fatal
ReportWarningsFatal(errors, warnings) ==
    IF errors # <<>> \/ warnings # <<>>
    THEN [exception |-> "ValueError", returned |-> FALSE,
          errors |-> errors, warnings |-> warnings, printed |-> <<>>]
    ELSE [exception |-> "none", returned |-> TRUE,
          errors |-> errors, warnings |-> warnings, printed |-> warnings]

\* the raise left out: errors are collected and the call returns True
ReportNeverRaising(errors, warnings) ==
    [exception |-> "none", returned |-> TRUE,
     errors |-> errors, warnings |-> warnings, printed |-> warnings]

\* lines 194-204: raise ValueError with every error, else print the
\* warnings and return True
Report(errors, warnings) ==
    IF errors # <<>>
    THEN [exception |-> "ValueError", returned |-> FALSE,
          errors |-> errors, warnings |-> warnings, printed |-> <<>>]
    ELSE [exception |-> "none", returned |-> TRUE,
          errors |-> errors, warnings |-> warnings, printed |-> warnings]

\* the inhibitory check done with pop(): the keys are taken out of the object
ValidateInputConsuming(s) ==
    [self |-> [s EXCEPT !.biophysical_params =
                    [k \in DOMAIN s.biophysical_params \ {"E_inh", "tau_i"} |->
                        s.biophysical_params[k]]],
     outcome |-> Report(ErrorsOf(s), WarningsOf(s))]

\* validate_input: the object as the call leaves it, and the outcome
ValidateInput(s) == [self |-> s, outcome |-> Report(ErrorsOf(s), WarningsOf(s))]

---------------------------------------------------------------------------
(* What callers pass *)

MuscleNames == <<"soleus_r", "tibialis_r", "gastroc_r", "rectus_r">>
MuscleLists == {SubSeq(MuscleNames, 1, n) : n \in 0..MaxMuscles}

RequiredSet == {required_params[i] : i \in DOMAIN required_params}
InhibitoryParams == [E_inh |-> Quantity(-75, "mV"), tau_i |-> Quantity(3, "ms")]

\* a quantity of another dimension than the one expected for p
WrongUnit(p) ==
    IF UnitDim(expected_units[p]) = "time" THEN Quantity(5, "mV") ELSE Quantity(5, "ms")

\* the defaults without the keys of D, with a wrong unit for those of W,
\* and with the inhibitory keys of E
BioMap(D, W, E) ==
    [k \in (RequiredSet \ D) \cup E |->
        IF k \in E THEN InhibitoryParams[k]
        ELSE IF k \in W THEN WrongUnit(k) ELSE DefaultBiophysical[k]]

BioFaults ==
    {<<{}, {}>>, <<RequiredSet, {}>>, <<{"Cm", "gL"}, {"T_refr", "E_ex"}>>}
    \cup {<<{k}, {}>> : k \in RequiredSet}
    \cup {<<{}, {k}>> : k \in RequiredSet}

BioMaps ==
    {BioMap(f[1], f[2], E) : f \in BioFaults, E \in {{}, {"E_inh"}}}
    \cup {BioMap({}, {}, {"tau_i"}), BioMap({}, {}, {"E_inh", "tau_i"})}

\* normalized currents, in hundredths
EESValues == {-10, 0, 50, 100, 150}

EESEntries ==
    [threshold_10pct : EESValues, saturation_90pct : EESValues]
    \cup {[threshold_10pct |-> 50], [threshold_10pct |-> 150],
          [saturation_90pct |-> 50], [saturation_90pct |-> -10], <<>>}

EESFewEntries ==
    {[threshold_10pct |-> 0, saturation_90pct |-> 100],
     [threshold_10pct |-> 50, saturation_90pct |-> 50],
     [threshold_10pct |-> 150, saturation_90pct |-> 100],
     [saturation_90pct |-> 50]}

\* profiles with one entry of the default replaced or left out, with both
\* replaced, and with an entry for another neuron type
EESMaps ==
    {[DefaultEES EXCEPT !.Ia = e] : e \in EESFewEntries}
    \cup {[DefaultEES EXCEPT !.MN = e] : e \in EESEntries}
    \cup {[Ia |-> e, MN |-> f] : e \in EESFewEntries, f \in EESFewEntries}
    \cup {[Ia |-> DefaultEES.Ia], [MN |-> DefaultEES.MN], <<>>,
          [Ia |-> DefaultEES.Ia, MN |-> DefaultEES.MN,
           II |-> [threshold_10pct |-> 150, saturation_90pct |-> 50]]}

NeuronMaps ==
    {[MN |-> 600], [II |-> 100], [Ia |-> 5, MN |-> 3], [MN |-> 0], <<>>}

ConnectionMaps ==
    {(<<"Ia", "II">> :> [w |-> Quantity(1500, "pS"), p |-> 50]),
     (<<"Ia", "MN">> :> [w |-> Quantity(3000, "pS"), p |-> 90]),
     <<>>}

SpindleMaps == {[II |-> "3*stretch"], [Ia |-> "5 + stretch"], <<>>}

PotentialMaps == {[MN |-> Quantity(-65, "mV")], <<>>}

CustomRecord == [u0 |-> <<1, 0>>, c0 |-> <<0, 1>>, P0 |-> 1, a0 |-> 1]
SpikeActivations == {<< [i \in 1..n |-> CustomRecord] >> : n \in 0..MaxCustomRecords}

ArgNames ==
    {"muscles_names", "biophysical_params", "custom_neurons", "custom_connections",
     "custom_spindle", "ees_recruitment_profile", "custom_initial_potentials",
     "custom_initial_condition_spike_activation"}

OverrideSets == {O \in SUBSET ArgNames : Cardinality(O) <= MaxOverrides}

Pick(given, S) == IF given THEN {Some(v) : v \in S} ELSE {None}

\* the calls that supply exactly the arguments of O
ArgsOverriding(O) ==
    [muscles_names : Pick("muscles_names" \in O, MuscleLists),
     biophysical_params : Pick("biophysical_params" \in O, BioMaps),
     custom_neurons : Pick("custom_neurons" \in O, NeuronMaps),
     custom_connections : Pick("custom_connections" \in O, ConnectionMaps),
     custom_spindle : Pick("custom_spindle" \in O, SpindleMaps),
     ees_recruitment_profile : Pick("ees_recruitment_profile" \in O, EESMaps),
     custom_initial_potentials : Pick("custom_initial_potentials" \in O, PotentialMaps),
     custom_initial_condition_spike_activation :
        Pick("custom_initial_condition_spike_activation" \in O, SpikeActivations)]

\* Monosynaptic(): every optional argument left at its default
NoArgs == CHOOSE a \in ArgsOverriding({}) : TRUE

---------------------------------------------------------------------------
(* Construction followed by further validate_input calls *)

Init ==
    /\ status = "new"
    /\ args = NoArgs
    /\ self = NoObject
    /\ outcome = NoOutcome
    /\ previous = NoOutcome
    /\ calls = 0

\* Monosynaptic.__init__, validation included
Construct ==
    /\ status = "new"
    /\ \E O \in OverrideSets : \E a \in ArgsOverriding(O) :
        LET merged == MergedFields(a)
            validated == ValidateInput(InitialState(merged, a))
        IN  /\ args' = a
            /\ previous' = NoOutcome
            /\ IF EleakyRaises(merged)
               THEN /\ self' = merged
                    /\ outcome' = [NoOutcome EXCEPT !.exception = "KeyError"]
                    /\ status' = "aborted"
                    /\ calls' = 0
               ELSE /\ self' = validated.self
                    /\ outcome' = validated.outcome
                    /\ status' = IF validated.outcome.returned
                                 THEN "constructed" ELSE "aborted"
                    /\ calls' = 1

\* validate_input called on an object that exists
ValidateInputCall ==
    /\ status = "constructed"
    /\ calls < MaxCalls
    /\ LET validated == ValidateInput(self)
       IN  /\ self' = validated.self
           /\ outcome' = validated.outcome
    /\ previous' = outcome
    /\ calls' = calls + 1
    /\ UNCHANGED <<status, args>>

Next == Construct \/ ValidateInputCall

Spec == Init /\ [][Next]_vars

---------------------------------------------------------------------------
(* validate_input on any object: the fields are plain attributes, so a     *)
(* caller can hand validate_input an object whose fields it has assigned   *)

\* the object Monosynaptic() builds
DefaultObject == InitialState(MergedFields(NoArgs), NoArgs)

NeuronCounts == [Ia |-> 410, MN |-> 500, II |-> 100]
NeuronPopulations == {[k \in K |-> NeuronCounts[k]] : K \in SUBSET {"Ia", "MN", "II"}}

ConnectionSets ==
    {[k \in K |-> [w |-> Quantity(2100, "pS"), p |-> 70]] :
        K \in SUBSET {<<"Ia", "MN">>, <<"Ia", "II">>}}

SpindleModels == {[k \in K |-> "10 + 2*stretch"] : K \in SUBSET {"Ia", "II"}}

FieldNames ==
    {"muscles_names", "neurons_population", "connections", "spindle_model",
     "biophysical_params", "ees_recruitment_profile"}

FieldSets == {O \in SUBSET FieldNames : Cardinality(O) <= MaxOverrides}

Assigned(given, S, default) == IF given THEN S ELSE {default}

\* the objects that differ from the default one in the fields of O only
ObjectsAssigning(O) ==
    {[o EXCEPT !.number_muscles = Len(o.muscles_names)] : o \in
        [muscles_names :
            Assigned("muscles_names" \in O, MuscleLists, DefaultObject.muscles_names),
         number_muscles : {DefaultObject.number_muscles},
         biophysical_params :
            Assigned("biophysical_params" \in O, BioMaps, DefaultObject.biophysical_params),
         ees_recruitment_profile :
            Assigned("ees_recruitment_profile" \in O, EESMaps,
                     DefaultObject.ees_recruitment_profile),
         neurons_population :
            Assigned("neurons_population" \in O, NeuronPopulations,
                     DefaultObject.neurons_population),
         connections :
            Assigned("connections" \in O, ConnectionSets, DefaultObject.connections),
         spindle_model :
            Assigned("spindle_model" \in O, SpindleModels, DefaultObject.spindle_model),
         initial_potentials : {DefaultObject.initial_potentials},
         initial_condition_spike_activation :
            {DefaultObject.initial_condition_spike_activation}]}

InitValidate ==
    /\ status = "constructed"
    /\ args = NoArgs
    /\ \E O \in FieldSets : self \in ObjectsAssigning(O)
    /\ outcome = NoOutcome
    /\ previous = NoOutcome
    /\ calls = 0

NextValidate == ValidateInputCall

SpecValidate == InitValidate /\ [][NextValidate]_vars

---------------------------------------------------------------------------
(* Properties *)

\* the messages of a list, as a set
Entries(msgs) == {msgs[i] : i \in DOMAIN msgs}

\* __init__ has run (to its end or to an exception)
Called == status # "new"

\* the arguments of O are the only ones that may have been supplied
OnlySupplied(O) == \A n \in ArgNames \ O : ~args[n].some

InRange(x) == 0 <= x /\ x <= 100

HasBoth(entry) ==
    "threshold_10pct" \in DOMAIN entry /\ "saturation_90pct" \in DOMAIN entry

\* the dimension each mandatory parameter must have
ExpectedDimension ==
    [T_refr |-> "time", Eleaky |-> "voltage", gL |-> "conductance",
     Cm |-> "capacitance", E_ex |-> "voltage", tau_e |-> "time",
     threshold_v |-> "voltage"]

MandatoryKeys == DOMAIN ExpectedDimension

\* The error-tagged rules an object violates, each as the message that
\* reports it.  The range and ordering rules apply to an entry that has
\* both sub-fields.
ViolatedRules(s) ==
    LET bio == s.biophysical_params
        ees == s.ees_recruitment_profile
        checked == {"Ia", "MN"} \cap DOMAIN ees
    IN  (IF s.number_muscles = 1 THEN {} ELSE {Msg("muscle_count", {}, <<>>)})
        \cup (IF {"Ia", "MN"} \subseteq DOMAIN s.neurons_population THEN {}
              ELSE {Msg("missing_neurons",
                        {<<n>> : n \in {"Ia", "MN"} \ DOMAIN s.neurons_population}, <<>>)})
        \cup (IF <<"Ia", "MN">> \in DOMAIN s.connections THEN {}
              ELSE {Msg("missing_connections", {<<"Ia", "MN">>}, <<>>)})
        \cup (IF "Ia" \in DOMAIN s.spindle_model THEN {}
              ELSE {Msg("missing_spindle", {<<"Ia">>}, <<>>)})
        \cup {Msg("missing_ees_type", {<<n>>}, <<>>) : n \in {"Ia", "MN"} \ DOMAIN ees}
        \cup {Msg("missing_parameter", {<<k>>}, <<>>) : k \in MandatoryKeys \ DOMAIN bio}
        \cup {Msg("incorrect_unit", {<<k, expected_units[k], bio[k].unit>>}, <<>>) :
                k \in {j \in MandatoryKeys \cap DOMAIN bio :
                          UnitDim(bio[j].unit) # ExpectedDimension[j]}}
        \cup UNION {{Msg("missing_ees_parameter", {<<f, n>>}, <<>>) :
                        f \in {"threshold_10pct", "saturation_90pct"} \ DOMAIN ees[n]} :
                    n \in checked}
        \cup {Msg("ees_range", {<<n>>},
                  <<ees[n]["threshold_10pct"], ees[n]["saturation_90pct"]>>) :
                n \in {m \in checked :
                          /\ HasBoth(ees[m])
                          /\ ~(InRange(ees[m]["threshold_10pct"])
                               /\ InRange(ees[m]["saturation_90pct"]))}}
        \cup {Msg("ees_order", {<<n>>}, <<>>) :
                n \in {m \in checked :
                          /\ HasBoth(ees[m])
                          /\ ~(ees[m]["threshold_10pct"] < ees[m]["saturation_90pct"])}}

\* C1: Monosynaptic() with every optional argument left at its default
\* has neurons_population {Ia: 410, MN: 500}, the single connection
\* (Ia, MN), the single spindle equation Ia, and its validation returns
\* with no error and no warning.
C1_DefaultConstruction ==
    (Called /\ OnlySupplied({})) =>
        /\ status = "constructed"
        /\ self.neurons_population = [Ia |-> 410, MN |-> 500]
        /\ DOMAIN self.connections = {<<"Ia", "MN">>}
        /\ DOMAIN self.spindle_model = {"Ia"}
        /\ outcome.returned /\ outcome.exception = "none"
        /\ outcome.errors = <<>> /\ outcome.warnings = <<>> /\ outcome.printed = <<>>

C1_Witness == status = "constructed" /\ OnlySupplied({}) /\ calls = 1

\* the field equals the default with the override's keys overwritten or added
IsMergeOf(field, default, custom) ==
    /\ DOMAIN field = DOMAIN default \cup DOMAIN custom
    /\ \A k \in DOMAIN custom : field[k] = custom[k]
    /\ \A k \in DOMAIN default \ DOMAIN custom : field[k] = default[k]

\* C2: neurons_population, connections and spindle_model are the defaults
\* with the keys of the supplied mapping overwritten or added (with
\* custom_neurons = {MN: 600}: Ia = 410 and MN = 600), and a call that
\* supplies only such mappings constructs the object, (Ia, MN) included.
C2_KeyMerge ==
    Called =>
        /\ args.custom_neurons.some =>
              IsMergeOf(self.neurons_population, [Ia |-> 410, MN |-> 500],
                        args.custom_neurons.val)
        /\ args.custom_connections.some =>
              IsMergeOf(self.connections, DefaultConnections, args.custom_connections.val)
        /\ args.custom_spindle.some =>
              IsMergeOf(self.spindle_model, DefaultSpindle, args.custom_spindle.val)
        /\ (args.custom_neurons.some /\ DOMAIN args.custom_neurons.val = {"MN"}
            /\ args.custom_neurons.val["MN"] = 600) =>
              self.neurons_population = [Ia |-> 410, MN |-> 600]
        /\ OnlySupplied({"custom_neurons", "custom_connections", "custom_spindle"}) =>
              /\ status = "constructed"
              /\ <<"Ia", "MN">> \in DOMAIN self.connections

C2_Witness ==
    /\ status = "constructed"
    /\ args.custom_neurons.some /\ DOMAIN args.custom_neurons.val = {"MN"}
    /\ self.neurons_population = [Ia |-> 410, MN |-> 600]
    /\ args.custom_connections.some
    /\ <<"Ia", "MN">> \notin DOMAIN args.custom_connections.val
    /\ DOMAIN self.connections = {<<"Ia", "MN">>, <<"Ia", "II">>}

\* biophysical_params is the only argument supplied, and it holds E_inh alone
OnlyEinh ==
    /\ Called /\ OnlySupplied({"biophysical_params"})
    /\ args.biophysical_params.some
    /\ DOMAIN args.biophysical_params.val = {"E_inh"}

Validated == calls >= 1

\* C4: validation does not stop at the first error: the errors of a
\* validate_input call are exactly the violated error rules, one entry
\* each, whatever else is violated, and the call raises exactly when there
\* is one.
C4_AllErrorsReported ==
    Validated =>
        /\ Entries(outcome.errors) = ViolatedRules(self)
        /\ Len(outcome.errors) = Cardinality(ViolatedRules(self))
        /\ (outcome.exception = "ValueError") <=> (ViolatedRules(self) # {})

C4_Witness ==
    /\ Validated /\ outcome.exception = "ValueError"
    /\ Cardinality({outcome.errors[i].rule : i \in DOMAIN outcome.errors}) >= 3

WarningRules == {"unexpected_neurons", "inhibitory_parameters"}

\* C5: warnings never block: an object that violates no error rule is
\* validated successfully whether or not a warning rule fires, a warning
\* rule adds nothing to the errors, and a call fails only on an error.
C5_WarningsNeverBlock ==
    Validated =>
        /\ ViolatedRules(self) = {} =>
              /\ outcome.returned /\ outcome.exception = "none"
              /\ outcome.printed = outcome.warnings
        /\ (Msg("unexpected_neurons",
                {<<n>> : n \in DOMAIN self.neurons_population \ {"Ia", "MN"}}, <<>>)
                \in Entries(outcome.warnings))
           <=> ~(DOMAIN self.neurons_population \subseteq {"Ia", "MN"})
        /\ (Msg("inhibitory_parameters", {}, <<>>) \in Entries(outcome.warnings))
           <=> ({"E_inh", "tau_i"} \cap DOMAIN self.biophysical_params # {})
        /\ \A w \in Entries(outcome.warnings) : w.rule \in WarningRules
        /\ \A e \in Entries(outcome.errors) : e.rule \notin WarningRules
        /\ ~outcome.returned => outcome.errors # <<>>

C5_Witness ==
    /\ Validated /\ outcome.returned
    /\ Len(outcome.printed) = 2

C7_ReadOnlyIdempotent ==
    [][(calls' = calls + 1 /\ status = "constructed") =>
          /\ self' = self
          /\ calls >= 1 => outcome' = outcome]_vars

C7_Witness ==
    /\ calls >= 2 /\ previous = outcome
    /\ outcome.exception = "ValueError" /\ outcome.warnings # <<>>

\* C8 as stated: with no ees_recruitment_profile supplied the profile is
\* Ia = {threshold_10pct: 0.10, saturation_90pct: 0.70} and
\* MN = {threshold_10pct: 0.70, saturation_90pct: 0.90}.
C8_AsStated ==
    (Called /\ ~args.ees_recruitment_profile.some) =>
        self.ees_recruitment_profile =
            [Ia |-> [threshold_10pct |-> 10, saturation_90pct |-> 70],
             MN |-> [threshold_10pct |-> 70, saturation_90pct |-> 90]]

\* C8 amended: with no ees_recruitment_profile supplied the profile is
\* Ia = {threshold_10pct: 0.30, saturation_90pct: 0.70} and
\* MN = {threshold_10pct: 0.70, saturation_90pct: 0.90}.
C8_DefaultProfile ==
    (Called /\ ~args.ees_recruitment_profile.some) =>
        self.ees_recruitment_profile =
            [Ia |-> [threshold_10pct |-> 30, saturation_90pct |-> 70],
             MN |-> [threshold_10pct |-> 70, saturation_90pct |-> 90]]

C8_Witness ==
    /\ status = "constructed" /\ ~args.ees_recruitment_profile.some
    /\ args.custom_neurons.some

\* C9: every object the constructor returns has exactly one muscle, the
\* neuron types Ia and MN, the connection (Ia, MN), the spindle equation of
\* Ia, the seven mandatory biophysical parameters each of its expected
\* dimension, and for Ia and MN a recruitment entry with both sub-fields in
\* [0, 1] and threshold_10pct < saturation_90pct.
C9_ConstructedIsSound ==
    status = "constructed" =>
        /\ Len(self.muscles_names) = 1 /\ self.number_muscles = 1
        /\ {"Ia", "MN"} \subseteq DOMAIN self.neurons_population
        /\ <<"Ia", "MN">> \in DOMAIN self.connections
        /\ "Ia" \in DOMAIN self.spindle_model
        /\ \A k \in MandatoryKeys :
              /\ k \in DOMAIN self.biophysical_params
              /\ UnitDim(self.biophysical_params[k].unit) = ExpectedDimension[k]
        /\ \A n \in {"Ia", "MN"} :
              /\ n \in DOMAIN self.ees_recruitment_profile
              /\ HasBoth(self.ees_recruitment_profile[n])
              /\ InRange(self.ees_recruitment_profile[n]["threshold_10pct"])
              /\ InRange(self.ees_recruitment_profile[n]["saturation_90pct"])
              /\ self.ees_recruitment_profile[n]["threshold_10pct"]
                    < self.ees_recruitment_profile[n]["saturation_90pct"]

C9_Witness ==
    /\ status = "constructed"
    /\ args.ees_recruitment_profile.some /\ args.biophysical_params.some
    /\ self.ees_recruitment_profile # DefaultEES
    /\ self.biophysical_params # DefaultBiophysical

\* C10: when no custom activation state is supplied, the state holds one
\* zero-valued record per motoneuron of the merged population (500 by
\* default, 600 with custom_neurons = {MN: 600}); a supplied state replaces
\* the whole structure, whatever its size.
C10_OneRecordPerMotoneuron ==
    (Called /\ calls >= 1) =>
        LET state == self.initial_condition_spike_activation
            custom == args.custom_initial_condition_spike_activation
        IN  /\ ~custom.some =>
                  /\ Len(state) = 1
                  /\ Len(state[1]) = self.neurons_population["MN"]
                  /\ \A i \in DOMAIN state[1] :
                        state[1][i] = [u0 |-> <<0, 0>>, c0 |-> <<0, 0>>, P0 |-> 0, a0 |-> 0]
                  /\ ~args.custom_neurons.some => Len(state[1]) = 500
                  /\ (args.custom_neurons.some
                      /\ "MN" \in DOMAIN args.custom_neurons.val) =>
                        Len(state[1]) = args.custom_neurons.val["MN"]
            /\ custom.some =>
                  /\ state = custom.val
                  /\ OnlySupplied({"custom_initial_condition_spike_activation",
                                   "custom_neurons"}) => status = "constructed"

C10_Witness ==
    /\ status = "constructed"
    /\ ~args.custom_initial_condition_spike_activation.some
    /\ args.custom_neurons.some
    /\ self.neurons_population["MN"] = 600
    /\ Len(self.initial_condition_spike_activation[1]) = 600

====
